---- MODULE Spec2Model ----
(***************************************************************************)
(* A model of cardgen.py: the page construction loop of main() with the   *)
(* per-card templating loop, and the PDF stage svgs_to_pdfs / merge_pdfs  *)
(* with its worker threads.                                               *)
(*                                                                         *)
(* Spec      the PDF stage (cardgen.py 111-170, 309-314), started from a  *)
(*           list of page files as main() hands it over.                  *)
(* SpecMain  the page construction loop (cardgen.py 213-307) over grid    *)
(*           sizes, page caps and card counts, one fixed template.        *)
(* SpecTpl   the same loop for one card, over templates and csv rows.     *)
(***************************************************************************)
EXTENDS Integers, Sequences, FiniteSets, TLC

VARIABLES
  \* ---- PDF stage ----
  ncpu,         \* multiprocessing.cpu_count()
  svg_fnames,   \* the page files handed to svgs_to_pdfs, by page number
  pdf_fnames,   \* svgs_to_pdfs: the pdf file of every page, in page order
  proc_args,    \* svgs_to_pdfs: the shared list of pending inkscape jobs
  errors,       \* svgs_to_pdfs: the shared list of recorded exceptions
  spc,          \* position of the main thread in the PDF stage
  threads,      \* number of threads started so far
  joined,       \* number of threads joined so far
  wpc,          \* position of every worker thread in conv()
  args,         \* conv(): the local variable args of every worker
  own,          \* history: did the worker's last pop(0) return a job
  calls,        \* history: every subprocess.check_call(args) of inkscape
  failed,       \* history: some inkscape run has ended in failure
  written,      \* pdf files written by inkscape runs that succeeded
  mergeCall,    \* the pdfunite invocation, if any
  merged,       \* TRUE once pdfunite has written <out_base>.pdf
  raised,       \* the exception that left svgs_to_pdfs, if any
  \* ---- page construction in main() ----
  width,        \* args.width
  height,       \* args.height
  pages,        \* args.pages
  no_grid,      \* args.no_grid
  lines,        \* the lines of the csv file, as read; each is a repeat count and fields
  has_csv,      \* args.csv is given
  template,     \* dom.getroot(): the template's nodes in document order
  csv,          \* the parsed cards (<< >> also stands for None: both are falsy)
  card_count,
  digits,
  index,
  filenum,
  output_fnames,
  pagesOut,     \* the svg files written: the cells of every page
  root,         \* the page under construction: its grid lines and its cells
  x,            \* loop variable of "for x in xrange(args.width)"
  y,            \* loop variable of "for y in xrange(args.height)"
  doc_copy,     \* the copy of the template being filled in: the card it is for
                \* (history), its x and y attributes, its nodes in document order
  templating_complete,
  it,           \* position of doc_copy.iter()
  mpc,          \* position of main()
  exc           \* the exception that ended main(), if any

pvars == <<ncpu, svg_fnames, pdf_fnames, proc_args, errors, spc, threads,
           joined, wpc, args, own, calls, failed, written, mergeCall, merged,
           raised>>

mvars == <<width, height, pages, no_grid, lines, has_csv, template, csv, card_count,
           digits, index, filenum, output_fnames, pagesOut, root, x, y, doc_copy,
           templating_complete, it, mpc, exc>>

vars == <<pvars, mvars>>

\* ---- bounds of the model ----
MaxPages == 3
MaxCpu == 2

\* ---- values ----
OutPdf == [kind |-> "out", page |-> 0]            \* '%s.pdf' % out_base
TmpPdf(i) == [kind |-> "tmp", page |-> i]         \* tempfile.mkstemp(suffix='.pdf')
NoFile == [kind |-> "none", page |-> 0]
Unbound == [inp |-> -1, out |-> NoFile]           \* args before its first assignment
NoCall == [inputs |-> << >>, out |-> NoFile]
NoError == [exc |-> "none", worker |-> 0, job |-> Unbound]

Workers == 1..ncpu

\* svgs_to_pdfs line 117-122: the pdf file a page is converted to.
PdfName(n, i) == IF n > 1 THEN TmpPdf(i) ELSE OutPdf

\* conv() line 141-142: except: errors.append(sys.exc_info())
RecordErrorDropped(errs, e) == errs
RecordError(errs, e) == Append(errs, e)

\* conv() line 132: len(errors) == 0
NoErrorsIgnored(errs) == TRUE
NoErrors(errs) == Len(errs) = 0

\* svgs_to_pdfs line 154-155: for error in errors: raise error -- the first one.
FirstError(errs) == Head(errs)

\* merge_pdfs line 161: if len(pdf_fnames) > 1
MergeAlways(fnames) == Len(fnames) >= 1
MergeNeeded(fnames) == Len(fnames) > 1

\* merge_pdfs line 164-166: pdfunite <pdf_fnames...> <out_base>.pdf
MergeArgs(fnames) == [inputs |-> fnames, out |-> OutPdf]

\* main() calls svgs_to_pdfs(output_fnames, args.out) (line 311).
InitPdf ==
  /\ ncpu \in 1..MaxCpu
  /\ \E n \in 1..MaxPages : svg_fnames = [i \in 1..n |-> i - 1]
  /\ pdf_fnames = << >>
  /\ proc_args = << >>
  /\ errors = << >>
  /\ spc = "build"
  /\ threads = 0
  /\ joined = 0
  /\ wpc = [w \in Workers |-> "new"]
  /\ args = [w \in Workers |-> Unbound]
  /\ own = [w \in Workers |-> FALSE]
  /\ calls = << >>
  /\ failed = FALSE
  /\ written = {}
  /\ mergeCall = NoCall
  /\ merged = FALSE
  /\ raised = NoError

\* svgs_to_pdfs line 116-128: one iteration of "for out in svg_fnames".
BuildJob ==
  /\ spc = "build"
  /\ LET k == Len(pdf_fnames) + 1 IN
       IF k <= Len(svg_fnames)
       THEN LET fname == PdfName(Len(svg_fnames), svg_fnames[k]) IN
              /\ pdf_fnames' = Append(pdf_fnames, fname)
              /\ proc_args' = Append(proc_args, [inp |-> svg_fnames[k], out |-> fname])
              /\ spc' = spc
       ELSE /\ spc' = "spawn"
            /\ UNCHANGED <<pdf_fnames, proc_args>>
  /\ UNCHANGED <<mvars, failed, ncpu, svg_fnames, errors, threads, joined, wpc,
                 args, own, calls, written, mergeCall, merged, raised>>

\* svgs_to_pdfs line 148-151: one iteration of "for _ in xrange(cpu_count())".
StartThread ==
  /\ spc = "spawn"
  /\ IF threads < ncpu
     THEN /\ threads' = threads + 1
          /\ wpc' = [wpc EXCEPT ![threads + 1] = "test"]
          /\ spc' = spc
     ELSE /\ spc' = "join"
          /\ UNCHANGED <<threads, wpc>>
  /\ UNCHANGED <<mvars, failed, ncpu, svg_fnames, pdf_fnames, proc_args,
                 errors, joined, args, own, calls, written, mergeCall, merged,
                 raised>>

\* conv() line 132, first operand: while proc_args ...
TestQueue(w) ==
  /\ wpc[w] = "test"
  /\ wpc' = [wpc EXCEPT ![w] = IF proc_args # << >> THEN "test_err" ELSE "exit"]
  /\ UNCHANGED <<mvars, failed, ncpu, svg_fnames, pdf_fnames, proc_args,
                 errors, spc, threads, joined, args, own, calls, written,
                 mergeCall, merged, raised>>

\* conv() line 132, second operand: ... and len(errors) == 0
TestErrors(w) ==
  /\ wpc[w] = "test_err"
  /\ wpc' = [wpc EXCEPT ![w] = IF NoErrors(errors) THEN "pop" ELSE "exit"]
  /\ UNCHANGED <<mvars, failed, ncpu, svg_fnames, pdf_fnames, proc_args,
                 errors, spc, threads, joined, args, own, calls, written,
                 mergeCall, merged, raised>>

\* conv() line 133-136: try: args = proc_args.pop(0); except IndexError: pass
Pop(w) ==
  /\ wpc[w] = "pop"
  /\ IF proc_args # << >>
     THEN /\ args' = [args EXCEPT ![w] = Head(proc_args)]
          /\ proc_args' = Tail(proc_args)
          /\ own' = [own EXCEPT ![w] = TRUE]
     ELSE /\ own' = [own EXCEPT ![w] = FALSE]
          /\ UNCHANGED <<args, proc_args>>
  /\ wpc' = [wpc EXCEPT ![w] = "call"]
  /\ UNCHANGED <<mvars, failed, ncpu, svg_fnames, pdf_fnames, errors, spc,
                 threads, joined, calls, written, mergeCall, merged, raised>>

\* conv() line 139-140: subprocess.check_call(args) starts inkscape; reading
\* args before its first assignment raises UnboundLocalError inside the try,
\* which the bare except of line 141 records.
Call(w) ==
  /\ wpc[w] = "call"
  /\ IF args[w] = Unbound
     THEN /\ errors' = RecordError(errors,
                [exc |-> "UnboundLocalError", worker |-> w, job |-> Unbound])
          /\ wpc' = [wpc EXCEPT ![w] = "test"]
          /\ UNCHANGED calls
     ELSE /\ calls' = Append(calls, [worker |-> w, job |-> args[w], own |-> own[w]])
          /\ wpc' = [wpc EXCEPT ![w] = "running"]
          /\ UNCHANGED errors
  /\ UNCHANGED <<mvars, failed, ncpu, svg_fnames, pdf_fnames, proc_args, spc,
                 threads, joined, args, own, written, mergeCall, merged, raised>>

\* conv() line 140-142: inkscape ends; a non-zero exit status (or a failure to
\* run it) raises inside the try and is recorded.
Finish(w) ==
  /\ wpc[w] = "running"
  /\ \E ok \in BOOLEAN :
       /\ failed' = (failed \/ ~ok)
       /\ IF ok
          THEN /\ written' = written \cup {args[w].out}
               /\ UNCHANGED errors
          ELSE /\ errors' = RecordError(errors,
                     [exc |-> "CalledProcessError", worker |-> w, job |-> args[w]])
               /\ UNCHANGED written
  /\ wpc' = [wpc EXCEPT ![w] = "test"]
  /\ UNCHANGED <<mvars, ncpu, svg_fnames, pdf_fnames, proc_args, spc, threads,
                 joined, args, own, calls, mergeCall, merged, raised>>

\* svgs_to_pdfs line 152-153: one iteration of "for thread in threads: join()".
Join ==
  /\ spc = "join"
  /\ IF joined < ncpu
     THEN /\ wpc[joined + 1] = "exit"
          /\ joined' = joined + 1
          /\ spc' = spc
     ELSE /\ spc' = "return"
          /\ UNCHANGED joined
  /\ UNCHANGED <<mvars, failed, ncpu, svg_fnames, pdf_fnames, proc_args,
                 errors, threads, wpc, args, own, calls, written, mergeCall,
                 merged, raised>>

\* svgs_to_pdfs line 154-156: raise the first recorded error, else return
\* pdf_fnames to main(), which calls merge_pdfs (line 311-312).
Return ==
  /\ spc = "return"
  /\ IF Len(errors) > 0
     THEN /\ raised' = FirstError(errors)
          /\ spc' = "raised"
     ELSE /\ spc' = "merge"
          /\ UNCHANGED raised
  /\ UNCHANGED <<mvars, failed, ncpu, svg_fnames, pdf_fnames, proc_args,
                 errors, threads, joined, wpc, args, own, calls, written,
                 mergeCall, merged>>

\* merge_pdfs line 159-170: pdfunite over pdf_fnames when there are several.
MergePdfs ==
  /\ spc = "merge"
  /\ IF MergeNeeded(pdf_fnames)
     THEN /\ mergeCall' = MergeArgs(pdf_fnames)
          /\ \E ok \in BOOLEAN :
               /\ merged' = ok
               /\ spc' = IF ok THEN "done" ELSE "merge_failed"
     ELSE /\ spc' = "done"
          /\ UNCHANGED <<mergeCall, merged>>
  /\ UNCHANGED <<mvars, failed, ncpu, svg_fnames, pdf_fnames, proc_args,
                 errors, threads, joined, wpc, args, own, calls, written,
                 raised>>

(***************************************************************************)
(* Strings.  A string is a sequence of tokens: a literal character        *)
(* ("a", "b"), a newline ("NL"), the two characters backslash n ("BSN"),  *)
(* a text placeholder [%N] ("P0", "P1"), the group reference \g<0> of a   *)
(* re.sub replacement ("G0"), or an embed placeholder [sub/%N.svg]        *)
(* ("E0", "E1").  None and '' are both << >>: the code only tests them    *)
(* for truth.                                                              *)
(***************************************************************************)
Placeholders == {"P0", "P1"}
EmbedTokens == {"E0", "E1"}

FieldIndex(tok) == IF tok \in {"P0", "E0"} THEN 0 ELSE 1

RECURSIVE SeqsUpTo(_, _)
SeqsUpTo(S, n) ==
  IF n = 0 THEN {<< >>}
  ELSE LET shorter == SeqsUpTo(S, n - 1) IN
         shorter \cup {Append(t, c) : t \in {u \in shorter : Len(u) = n - 1}, c \in S}

HasPlaceholder(text) == \E i \in DOMAIN text : text[i] \in Placeholders

\* TEMPLATE_REGEX.search(text): the first match.
FirstMatch(text) ==
  text[CHOOSE i \in DOMAIN text :
         /\ text[i] \in Placeholders
         /\ \A j \in 1..(i - 1) : text[j] \notin Placeholders]

\* str.replace('\\n', '\n') of line 72.
Unescape(s) == [i \in DOMAIN s |-> IF s[i] = "BSN" THEN "NL" ELSE s[i]]

\* re.sub expands the replacement for every match: \g<0> is the match.
RECURSIVE Expand(_, _)
Expand(repl, match) ==
  IF repl = << >> THEN << >>
  ELSE <<IF Head(repl) = "G0" THEN match ELSE Head(repl)>> \o Expand(Tail(repl), match)

\* TEMPLATE_REGEX.sub(repl_text, text): every match of the pattern, whatever
\* its index, is replaced by the one replacement text.
RECURSIVE Sub(_, _)
Sub(repl, text) ==
  IF text = << >> THEN << >>
  ELSE (IF Head(text) \in Placeholders THEN Expand(repl, Head(text)) ELSE <<Head(text)>>)
       \o Sub(repl, Tail(text))

\* apply_template line 72: csv_row[int(match.group(1))] raises IndexError.
TemplateRaises(text, csv_row) ==
  HasPlaceholder(text) /\ FieldIndex(FirstMatch(text)) >= Len(csv_row)

\* apply_template line 67-74.
apply_template(text, csv_row) ==
  IF text = << >> THEN << >>
  ELSE IF HasPlaceholder(text)
       THEN Sub(Unescape(csv_row[FieldIndex(FirstMatch(text)) + 1]), text)
       ELSE << >>

\* "if repl_text:" of lines 286 and 291.
Truthy(s) == s # << >>

(***************************************************************************)
(* Nodes.  A node is its tag, its text, its string attributes (attrib) and *)
(* the names of its numeric attributes (box); nodes are kept in document  *)
(* order, which is the order of doc_copy.iter().                          *)
(***************************************************************************)
BoxNames == {"x", "y", "width", "height"}
LabelNames == {"inkscape:label"}                 \* 'label' in attrib

\* The files under the template's directory: sub/<field>.svg exists for
\* these field values.
FragmentFiles == {<<"a">>}

\* list(root) of the loaded fragment: its top-level children.
FragmentChildren ==
  << [tag |-> "text", text |-> <<"P0">>, attrib |-> << >>, box |-> {}] >>

\* apply_subsvg line 79-86: the label attribute that matches SUBSVG_REGEX.
SubsvgMatches(node) ==
  {a \in DOMAIN node.attrib \cap LabelNames :
     node.attrib[a] # << >> /\ Head(node.attrib[a]) \in EmbedTokens}

\* apply_subsvg line 96-103.
new_attrib == [a \in {"xmlns", "viewBox", "preserveAspectRatio"} |-> <<"a">>]

\* apply_subsvg line 77-108: the exception it raises ("none" when it returns),
\* whether it returns True, the node afterwards and the children it gained.
apply_subsvg(node, csv_row) ==
  IF SubsvgMatches(node) = {}
  THEN [err |-> "none", done |-> FALSE, node |-> node, kids |-> << >>]
  ELSE LET a == CHOOSE n \in SubsvgMatches(node) : TRUE
           i == FieldIndex(Head(node.attrib[a]))
       IN IF i >= Len(csv_row)
          THEN [err |-> "IndexError", done |-> FALSE, node |-> node, kids |-> << >>]
          ELSE IF csv_row[i + 1] \notin FragmentFiles
          THEN [err |-> "OSError", done |-> FALSE, node |-> node, kids |-> << >>]
          ELSE IF ~(BoxNames \subseteq node.box)
          THEN [err |-> "ValueError", done |-> FALSE, node |-> node, kids |-> << >>]
          ELSE [err |-> "none", done |-> TRUE,
                node |-> [tag |-> "svg", text |-> << >>, attrib |-> new_attrib,
                          box |-> BoxNames],
                kids |-> FragmentChildren]

\* main() line 283-293: the body of "for node in doc_copy.iter()" for one node.
VisitNode(node, csv_row) ==
  LET sub == apply_subsvg(node, csv_row)
      n1 == sub.node
      repl_text == apply_template(n1.text, csv_row)
      n2 == [n1 EXCEPT !.text = IF Truthy(repl_text) THEN repl_text ELSE @]
      n3 == [n2 EXCEPT !.attrib =
               [a \in DOMAIN n2.attrib |->
                  IF Truthy(apply_template(n2.attrib[a], csv_row))
                  THEN apply_template(n2.attrib[a], csv_row)
                  ELSE n2.attrib[a]]]
  IN IF sub.err # "none" THEN [err |-> sub.err, changed |-> FALSE, nodes |-> <<node>>]
     ELSE IF \/ TemplateRaises(n1.text, csv_row)
             \/ \E a \in DOMAIN n1.attrib : TemplateRaises(n1.attrib[a], csv_row)
     THEN [err |-> "IndexError", changed |-> FALSE, nodes |-> <<node>>]
     ELSE [err |-> "none",
           changed |-> \/ sub.done
                       \/ Truthy(repl_text)
                       \/ \E a \in DOMAIN n2.attrib :
                            Truthy(apply_template(n2.attrib[a], csv_row)),
           nodes |-> <<n3>> \o sub.kids]

(***************************************************************************)
(* Page construction.                                                      *)
(***************************************************************************)
\* ---- bounds of the model ----
MaxW == 2
MaxH == 2
MaxP == 2
MaxCount == 3
MaxTextLen == 2
MaxFieldLen == 1
MaxFields == 2

\* The loop of line 235 does not end when a page takes no card; the model
\* stops it after this many pages.
MaxOut == 2 * MaxCount + 1
\* Text that grows at every pass is followed up to this length.
MaxGrow == 2 * MaxTextLen + 2

\* Template root width/height (line 227-228) and the margins in svg units
\* (line 214-215).
TemplateSize == [width |-> 3, height |-> 5]
Margin == [horiz |-> 1, vert |-> 2]

\* parse_csv line 45: result.extend([tmp[1:]] * int(tmp[0]))
RECURSIVE Repeat(_, _)
Repeat(row, n) == IF n <= 0 THEN << >> ELSE <<row>> \o Repeat(row, n - 1)

\* parse_csv line 37-46.
RECURSIVE parse_csv(_)
parse_csv(ls) ==
  IF ls = << >> THEN << >>
  ELSE Repeat(Head(ls).fields, Head(ls).count) \o parse_csv(Tail(ls))

\* line 222: card_count = len(csv) if csv else args.width * args.height
CardCount(cards, w, h) == IF cards # << >> THEN Len(cards) ELSE w * h

\* line 223: int(math.log10(card_count)), for card_count >= 1.
Digits(n) == IF n < 10 THEN 0 ELSE IF n < 100 THEN 1 ELSE 2

\* line 235-236: the condition of the page loop.
WhileCondNoCap(i, count, cap, nout) == i < count
WhileCond(i, count, cap, nout) == i < count /\ (cap = 0 \/ nout < cap)

\* line 275-276: the offset of the cell (cx, cy).
CellOffsetRowMajor(cx, cy) ==
  [x |-> TemplateSize.width * cy + Margin.horiz,
   y |-> TemplateSize.height * cx + Margin.vert]
CellOffset(cx, cy) ==
  [x |-> TemplateSize.width * cx + Margin.horiz,
   y |-> TemplateSize.height * cy + Margin.vert]

\* line 248-266: the number of grid lines added to a page.
GridLines(w, h) ==
  2 * (IF w + 1 > 0 THEN w + 1 ELSE 0) + 2 * (IF h + 1 > 0 THEN h + 1 ELSE 0)

\* line 303: str(filenum).zfill(digits) -- the width of the number in the name.
NameWidth(num, pad) ==
  LET w == IF num < 10 THEN 1 ELSE 2 IN IF pad > w THEN pad ELSE w

NoCopy == [item |-> -1, x |-> 0, y |-> 0, nodes |-> << >>]

IdlePdf ==
  /\ ncpu = 1
  /\ svg_fnames = << >>
  /\ pdf_fnames = << >>
  /\ proc_args = << >>
  /\ errors = << >>
  /\ spc = "idle"
  /\ threads = 0
  /\ joined = 0
  /\ wpc = [w \in Workers |-> "new"]
  /\ args = [w \in Workers |-> Unbound]
  /\ own = [w \in Workers |-> FALSE]
  /\ calls = << >>
  /\ failed = FALSE
  /\ written = {}
  /\ mergeCall = NoCall
  /\ merged = FALSE
  /\ raised = NoError

\* main() up to line 221, for given arguments and files.
InitMain(w, h, p, ng, given, ls, tpl) ==
  /\ width = w
  /\ height = h
  /\ pages = p
  /\ no_grid = ng
  /\ has_csv = given
  /\ lines = ls
  /\ template = tpl
  /\ csv = << >>
  /\ card_count = 0
  /\ digits = 0
  /\ index = 0
  /\ filenum = 0
  /\ output_fnames = << >>
  /\ pagesOut = << >>
  /\ root = [nlines |-> 0, cells |-> << >>]
  /\ x = 0
  /\ y = 0
  /\ doc_copy = NoCopy
  /\ templating_complete = TRUE
  /\ it = 0
  /\ mpc = "start"
  /\ exc = "none"

IdleMain == InitMain(1, 1, 0, FALSE, FALSE, << >>, << >>)

\* main() line 217-223: parse the csv file, count the cards.
Start ==
  /\ mpc = "start"
  /\ csv' = IF has_csv THEN parse_csv(lines) ELSE << >>
  /\ card_count' = CardCount(csv', width, height)
  /\ IF card_count' <= 0
     THEN /\ exc' = "ValueError"                  \* math.log10 of a number <= 0
          /\ mpc' = "error"
          /\ UNCHANGED digits
     ELSE /\ digits' = Digits(card_count')
          /\ mpc' = "while"
          /\ UNCHANGED exc
  /\ UNCHANGED <<width, height, pages, no_grid, lines, has_csv, template, index,
                 filenum, output_fnames, pagesOut, root, x, y, doc_copy,
                 templating_complete, it, pvars>>

\* main() line 235-266: the test of the page loop, and the new page with its grid.
While ==
  /\ mpc = "while"
  /\ IF WhileCond(index, card_count, pages, Len(output_fnames))
     THEN /\ Len(output_fnames) < MaxOut
          /\ root' = [nlines |-> IF no_grid THEN 0 ELSE GridLines(width, height),
                      cells |-> << >>]
          /\ x' = 0
          /\ y' = 0
          /\ mpc' = "for"
     ELSE /\ mpc' = "done"
          /\ UNCHANGED <<root, x, y>>
  /\ UNCHANGED <<width, height, pages, no_grid, lines, has_csv, template, csv,
                 card_count, digits, index, filenum, output_fnames, pagesOut,
                 doc_copy, templating_complete, it, exc, pvars>>

\* main() line 269-279: one step of the loops over x and y, up to the copy of
\* the template and its offset.
Cell ==
  /\ mpc = "for"
  /\ IF x >= width
     THEN /\ mpc' = "write"
          /\ UNCHANGED <<x, y, doc_copy, templating_complete>>
     ELSE IF y >= height \/ index = card_count      \* inner loop ends, or break
     THEN /\ x' = x + 1
          /\ y' = 0
          /\ UNCHANGED <<mpc, doc_copy, templating_complete>>
     ELSE /\ doc_copy' = [item |-> index,
                          x |-> CellOffset(x, y).x, y |-> CellOffset(x, y).y,
                          nodes |-> template]
          /\ IF csv # << >>
             THEN templating_complete' = FALSE /\ mpc' = "tpl_while"
             ELSE mpc' = "append" /\ UNCHANGED templating_complete
          /\ UNCHANGED <<x, y>>
  /\ UNCHANGED <<width, height, pages, no_grid, lines, has_csv, template, csv,
                 card_count, digits, index, filenum, output_fnames, pagesOut,
                 root, it, exc, pvars>>

\* main() line 280-282: while not templating_complete.
TplWhile ==
  /\ mpc = "tpl_while"
  /\ IF ~templating_complete
     THEN /\ templating_complete' = TRUE
          /\ it' = 1
          /\ mpc' = "tpl_for"
     ELSE /\ mpc' = "append"
          /\ UNCHANGED <<templating_complete, it>>
  /\ UNCHANGED <<width, height, pages, no_grid, lines, has_csv, template, csv,
                 card_count, digits, index, filenum, output_fnames, pagesOut,
                 root, x, y, doc_copy, exc, pvars>>

\* main() line 282-293: one node of "for node in doc_copy.iter()".
TplNode ==
  /\ mpc = "tpl_for"
  /\ \A i \in DOMAIN doc_copy.nodes : Len(doc_copy.nodes[i].text) <= MaxGrow
  /\ IF it > Len(doc_copy.nodes)
     THEN /\ mpc' = "tpl_while"
          /\ UNCHANGED <<doc_copy, templating_complete, it, exc>>
     ELSE LET r == VisitNode(doc_copy.nodes[it], csv[index + 1])
              ns == doc_copy.nodes
          IN IF r.err # "none"
             THEN /\ exc' = r.err
                  /\ mpc' = "error"
                  /\ UNCHANGED <<doc_copy, templating_complete, it>>
             ELSE /\ doc_copy' = [doc_copy EXCEPT !.nodes =
                        SubSeq(ns, 1, it - 1) \o r.nodes \o SubSeq(ns, it + 1, Len(ns))]
                  /\ templating_complete' = (templating_complete /\ ~r.changed)
                  /\ it' = it + 1
                  /\ UNCHANGED <<mpc, exc>>
  /\ UNCHANGED <<width, height, pages, no_grid, lines, has_csv, template, csv,
                 card_count, digits, index, filenum, output_fnames, pagesOut,
                 root, x, y, pvars>>

\* main() line 294-295: root.append(doc_copy); index += 1.
AppendCell ==
  /\ mpc = "append"
  /\ root' = [root EXCEPT !.cells = Append(@, doc_copy)]
  /\ index' = index + 1
  /\ y' = y + 1
  /\ mpc' = "for"
  /\ UNCHANGED <<width, height, pages, no_grid, lines, has_csv, template, csv,
                 card_count, digits, filenum, output_fnames, pagesOut, x,
                 doc_copy, templating_complete, it, exc, pvars>>

\* main() line 297-307: write the page, filenum += 1.
WritePage ==
  /\ mpc = "write"
  /\ output_fnames' = Append(output_fnames,
                             [num |-> filenum, width |-> NameWidth(filenum, digits)])
  /\ pagesOut' = Append(pagesOut, root)
  /\ filenum' = filenum + 1
  /\ mpc' = "while"
  /\ UNCHANGED <<width, height, pages, no_grid, lines, has_csv, template, csv,
                 card_count, digits, index, root, x, y, doc_copy,
                 templating_complete, it, exc, pvars>>

NextMain ==
  \/ Start
  \/ While
  \/ Cell
  \/ TplWhile
  \/ TplNode
  \/ AppendCell
  \/ WritePage

\* ---- the inputs of SpecMain ----
MainTemplate ==
  << [tag |-> "svg", text |-> <<"P0">>, attrib |-> [a \in {"id"} |-> <<"a">>],
      box |-> {"width", "height"}] >>

CsvLine(c, ch) == [count |-> c, fields |-> << <<ch>> >>]

CsvFiles == {<<CsvLine(c1, "a"), CsvLine(c2, "b")>> : c1, c2 \in 0..MaxCount}

InitLayout ==
  /\ IdlePdf
  /\ \E w \in (-1)..MaxW, h \in (-1)..MaxH, p \in 0..MaxP, ng \in BOOLEAN :
       \/ \E ls \in CsvFiles : InitMain(w, h, p, ng, TRUE, ls, MainTemplate)
       \/ InitMain(w, h, p, ng, FALSE, << >>, MainTemplate)

SpecMain == InitLayout /\ [][NextMain]_vars

\* ---- the inputs of SpecTpl ----
TplAlphabet == {"a", "P0", "P1"}
FieldAlphabet == {"a", "b", "BSN", "P0", "G0"}

TplNodeOf(text, attr) ==
  [tag |-> "svg", text |-> text, attrib |-> [a \in {"id"} |-> attr],
   box |-> {"width", "height"}]

EmbedNode(box) ==
  [tag |-> "rect", text |-> << >>, attrib |-> [a \in LabelNames |-> <<"E0">>],
   box |-> box]

Templates ==
  {<<TplNodeOf(t, a)>> \o e :
     t \in SeqsUpTo(TplAlphabet, MaxTextLen),
     a \in SeqsUpTo(TplAlphabet, 1),
     e \in {<< >>, <<EmbedNode(BoxNames)>>, <<EmbedNode(BoxNames \ {"width"})>>}}

Rows == UNION {[1..k -> SeqsUpTo(FieldAlphabet, MaxFieldLen)] : k \in 1..MaxFields}

InitTpl ==
  /\ IdlePdf
  /\ \E tpl \in Templates, row \in Rows :
       InitMain(1, 1, 0, TRUE, TRUE, <<[count |-> 1, fields |-> row]>>, tpl)

SpecTpl == InitTpl /\ [][NextMain]_vars

Next ==
  \/ BuildJob
  \/ StartThread
  \/ \E w \in Workers : TestQueue(w)
  \/ \E w \in Workers : TestErrors(w)
  \/ \E w \in Workers : Pop(w)
  \/ \E w \in Workers : Call(w)
  \/ \E w \in Workers : Finish(w)
  \/ Join
  \/ Return
  \/ MergePdfs

Init == InitPdf /\ IdleMain

Spec == Init /\ [][Next]_vars

(***************************************************************************)
(* Claims about the PDF stage, checked under Spec.                         *)
(***************************************************************************)

ConversionFailed == failed

PageOrder == [i \in 1..Len(svg_fnames) |-> TmpPdf(svg_fnames[i])]

\* C1: with N >= 2 pages and every inkscape run succeeding, once the PDF
\* stage has ended pdfunite has been invoked with the per-page pdf files in
\* page order 0..N-1, whatever the interleaving of the workers.
C1_MergeInPageOrder ==
  (/\ Len(svg_fnames) >= 2
   /\ ~ConversionFailed
   /\ spc \in {"raised", "done", "merge_failed"})
  => mergeCall = [inputs |-> PageOrder, out |-> OutPdf]

\* C2: if an inkscape run failed among N >= 2 pages, the failure is in the
\* error list, pdfunite is never invoked, no <out_base>.pdf is produced, and
\* after the joins svgs_to_pdfs raises the first recorded error.
C2_FailureSurfaces ==
  (Len(svg_fnames) >= 2 /\ ConversionFailed)
  => /\ Len(errors) > 0
     /\ mergeCall = NoCall
     /\ ~merged
     /\ OutPdf \notin written
     /\ spc \in {"spawn", "join", "return", "raised"}
     /\ (spc = "raised" => raised = errors[1])

C2_Witness ==
  /\ Len(svg_fnames) >= 2
  /\ spc = "raised"
  /\ raised.exc = "CalledProcessError"
  /\ written # {}

\* C7: every inkscape job is started by exactly one worker exactly once, and
\* every start is of a job the worker popped itself in that loop iteration.
C7_EachJobOnce ==
  /\ \A i, j \in DOMAIN calls : i # j => calls[i].job # calls[j].job
  /\ \A i \in DOMAIN calls : calls[i].own

FailureRecorded == \E i \in DOMAIN errors : errors[i].exc = "CalledProcessError"

\* C8 as stated: once a conversion failure is in the error list, no job that
\* is still pending is taken from the queue, so none is started.
C8_FailFast == [][FailureRecorded => proc_args' = proc_args]_vars

\* C8 amended: a worker that evaluates its loop condition when an error is
\* recorded leaves the loop without taking a job, so after a failure only a
\* worker that had already passed "len(errors) == 0" takes one more job;
\* running jobs are left to end on their own.
C8_FailFastAtLoopTest ==
  [][\A w \in Workers :
       (Len(errors) > 0 /\ wpc[w] \in {"test", "test_err"})
       => wpc'[w] \in {"test", "test_err", "exit"}]_vars

C8_Witness ==
  /\ FailureRecorded
  /\ proc_args # << >>
  /\ ncpu >= 2
  /\ \A w \in Workers : wpc[w] = "exit"
  /\ Len(calls) >= 2

\* C9 as stated: with a single page no worker thread is started, pdfunite is
\* not invoked and the page goes straight to <out_base>.pdf.
C9_NoThreadsForSinglePage ==
  Len(svg_fnames) = 1
  => /\ threads = 0
     /\ mergeCall = NoCall
     /\ \A i \in DOMAIN calls : calls[i].job.out = OutPdf

\* C9 amended: with a single page the worker threads are started as for any
\* page count and one of them runs inkscape; the page is converted straight
\* to <out_base>.pdf (no temporary pdf) and pdfunite is never invoked.
C9_SinglePageDirect ==
  Len(svg_fnames) = 1
  => /\ mergeCall = NoCall
     /\ ~merged
     /\ \A i \in DOMAIN pdf_fnames : pdf_fnames[i] = OutPdf
     /\ \A i \in DOMAIN calls :
          calls[i].job.out = OutPdf /\ calls[i].worker \in 1..threads
     /\ written \subseteq {OutPdf}
     /\ (spc \in {"join", "return", "merge", "done", "raised"} => threads = ncpu)

C9_Witness ==
  /\ Len(svg_fnames) = 1
  /\ spc = "done"
  /\ threads = ncpu
  /\ written = {OutPdf}

(***************************************************************************)
(* Claims about the page construction, checked under SpecMain.             *)
(***************************************************************************)
Min(a, b) == IF a < b THEN a ELSE b

PerPage == width * height

FullPages == (card_count + PerPage - 1) \div PerPage

\* C3: for W >= 1, H >= 1, n >= 1 cards and page cap P (0: no cap) the page
\* loop ends with ceil(n / (W*H)) pages if P = 0 and min(P, ceil(n / (W*H)))
\* otherwise; every page but the last holds W*H cells, the last holds the
\* rest, and cards beyond the cap are not emitted.
C3_PageCount ==
  (mpc = "done" /\ width >= 1 /\ height >= 1 /\ card_count >= 1)
  => LET np == IF pages = 0 THEN FullPages ELSE Min(pages, FullPages) IN
       /\ Len(pagesOut) = np
       /\ Len(output_fnames) = np
       /\ \A k \in 1..(np - 1) : Len(pagesOut[k].cells) = PerPage
       /\ Len(pagesOut[np].cells) =
            IF np = FullPages THEN card_count - (FullPages - 1) * PerPage ELSE PerPage
       /\ index = Min(card_count, np * PerPage)
       /\ \A k \in 1..np : \A j \in DOMAIN pagesOut[k].cells :
            pagesOut[k].cells[j].item < index

C3_Witness ==
  /\ mpc = "done"
  /\ pages = 1
  /\ card_count = 5
  /\ PerPage = 2
  /\ Len(pagesOut) = 1
  /\ Len(pagesOut[1].cells) = 2

\* C4: the run ends with an error, without writing a page and without
\* completing, whenever W or H is not positive, and whenever a csv file was
\* given and holds no card.
C4_LayoutError ==
  (width <= 0 \/ height <= 0 \/ (has_csv /\ parse_csv(lines) = << >>))
  => (output_fnames = << >> /\ mpc # "done")

\* C10: for W >= 1, H >= 1 and no page cap, card i (from 0, in input order) is
\* placed once, on page i div (W*H), in cell x = (i mod (W*H)) div H,
\* y = i mod H, at offset (template_width*x + horiz_margin,
\* template_height*y + vert_margin), filled in from row i; at the end every
\* card has been placed.
C10_Placement ==
  (width >= 1 /\ height >= 1 /\ pages = 0)
  => /\ \A k \in DOMAIN pagesOut : \A j \in DOMAIN pagesOut[k].cells :
          LET c == pagesOut[k].cells[j]
              i == c.item
          IN /\ i = (k - 1) * PerPage + (j - 1)
             /\ k - 1 = i \div PerPage
             /\ c.x = TemplateSize.width * ((i % PerPage) \div height) + Margin.horiz
             /\ c.y = TemplateSize.height * (i % height) + Margin.vert
             /\ (csv # << >> => c.nodes[1].text = csv[i + 1][1])
     /\ (mpc = "done" => /\ index = card_count
                         /\ \A k \in DOMAIN pagesOut : Len(pagesOut[k].cells) >= 1)

C10_Witness ==
  /\ mpc = "done"
  /\ pages = 0
  /\ width = 2
  /\ height = 2
  /\ has_csv
  /\ card_count = 6
  /\ Len(pagesOut) = 2
  /\ pagesOut[2].cells[2].nodes[1].text = <<"b">>

(***************************************************************************)
(* Claims about the templating of one card, checked under SpecTpl.         *)
(***************************************************************************)
Literal(s) == \A i \in DOMAIN s : s[i] \in {"a", "b"}

\* Every placeholder replaced by the field its own index names.
RECURSIVE OwnField(_, _)
OwnField(text, csv_row) ==
  IF text = << >> THEN << >>
  ELSE (IF Head(text) \in Placeholders
        THEN Unescape(csv_row[FieldIndex(Head(text)) + 1])
        ELSE <<Head(text)>>)
       \o OwnField(Tail(text), csv_row)

NodeStrings(n) == {n.text} \cup {n.attrib[a] : a \in DOMAIN n.attrib}

InRange(tpl, csv_row) ==
  \A k \in DOMAIN tpl : \A s \in NodeStrings(tpl[k]) : \A i \in DOMAIN s :
     s[i] \in Placeholders \cup EmbedTokens => FieldIndex(s[i]) < Len(csv_row)

\* C5: a text with placeholders of different in-range indices resolves, at
\* the fixed point, to the text with every placeholder replaced by the value
\* of the field its own index references.
C5_OwnFieldValue ==
  (/\ mpc = "append"
   /\ {"P0", "P1"} \subseteq {template[1].text[i] : i \in DOMAIN template[1].text}
   /\ Len(csv[1]) = 2
   /\ \A f \in DOMAIN csv[1] : csv[1][f] # << >> /\ Literal(csv[1][f]))
  => doc_copy.nodes[1].text = OwnField(template[1].text, csv[1])

\* C6: with every placeholder index in range and no placeholder token in any
\* field value (the empty string included), when the loop of a cell has ended
\* no node text and no attribute value of the cell holds a text placeholder.
C6_NoPlaceholderLeft ==
  (/\ mpc = "append"
   /\ InRange(template, csv[1])
   /\ \A f \in DOMAIN csv[1] : ~HasPlaceholder(csv[1][f]))
  => \A k \in DOMAIN doc_copy.nodes : \A s \in NodeStrings(doc_copy.nodes[k]) :
       ~HasPlaceholder(s)

====
